---- MODULE Spec2Model ----
(***************************************************************************)
(* A model of nadlogar/problems/models/meta.py: the Problem parent model,  *)
(* its seeded generation loop (_generate_data), the @-template renderer    *)
(* (ProblemText.render over string.Template with delimiter "@"), and the   *)
(* persistence operations clean / save / downcast / copy.                  *)
(*                                                                         *)
(* Python strings are sequences of one-character strings, so formatting    *)
(* (f-strings, str()) and template scanning are computed character by      *)
(* character.                                                              *)
(***************************************************************************)
EXTENDS Integers, Sequences, FiniteSets, TLC

VARIABLES
    \* ---- generation (module-global random source and the running calls)
    rng,        \* state of the module-global `random`: [seed, pos]
    pc,         \* per request: "idle", "for", "try", "done", "raised"
    req,        \* per request: the entity, the student and the mode
    idx,        \* per request: loop variable i of _generate_data
    data,       \* per request: the list `data` of _generate_data
    result,     \* per request: what the public call returned / raised
    seedLog,    \* per request (history): the random.seed calls of this call
    attempts,   \* per request (history): generate() calls since the last seed
    memo,       \* (history) one remembered finished call: its key and output
    parallel,   \* whether the host interleaves two requests
    \* ---- persistence
    inst,       \* the Problem instance the caller holds (NoObj: none)
    rows,       \* the parent table: id -> row (NoRow: absent)
    nextId,     \* the table's auto-increment
    lastOp,     \* (history) the last persistence operation and its outcome
    \* ---- template rendering
    tpl,        \* a ProblemText under test: [instruction, solution]
    datum,      \* the datum it is rendered with
    rendered    \* the outcome of ProblemText.render([datum]), or NotRendered

genVars == <<rng, pc, req, idx, data, result, seedLog, attempts, memo, parallel>>
dbVars == <<inst, rows, nextId, lastOp>>
renderVars == <<tpl, datum, rendered>>
vars == <<rng, pc, req, idx, data, result, seedLog, attempts, memo, parallel,
          inst, rows, nextId, lastOp, tpl, datum, rendered>>

-----------------------------------------------------------------------------
(* Bounds of the model *)

\* student ids are 1..MaxStudent
MaxStudent == 2
\* the largest number_of_subproblems among the stored problems
MaxSub == 2
\* the random source yields values in 0..RandMod-1
RandMod == 6
\* the position of the random source is counted up to MaxPos draws after a
\* seed call and stays there (only a generator that rejects every draw gets
\* that far)
MaxPos == 4
\* templates under test have at most MaxTplLen characters
MaxTplLen == 3
\* the parent table holds at most MaxRows rows
MaxRows == 2

-----------------------------------------------------------------------------
(* Strings *)

Digits == <<"0", "1", "2", "3", "4", "5", "6", "7", "8", "9">>

DigitChars == {Digits[k] : k \in 1..10}

\* str(n) for a non-negative int
RECURSIVE StrInt(_)
StrInt(n) ==
    IF n < 10 THEN <<Digits[n + 1]>>
    ELSE StrInt(n \div 10) \o <<Digits[(n % 10) + 1]>>

\* Python's None as a seed, and a string as a seed
NoneSeed == [isNone |-> TRUE, s |-> <<>>]

StrSeed(s) == [isNone |-> FALSE, s |-> s]

\* format(x) inside an f-string, for x a str or None
Format(x) == IF x.isNone THEN <<"N", "o", "n", "e">> ELSE x.s

-----------------------------------------------------------------------------
(* string.Template with delimiter "@" *)

LetterChars == {"x", "y", "X"}

IdStartChars == LetterChars \cup {"_"}

IdChars == IdStartChars \cup DigitChars

\* outcome of a call that returns a value or raises
Ok(v) == [ok |-> TRUE, err |-> "", out |-> v]

Raise(e) == [ok |-> FALSE, err |-> e, out |-> <<>>]

\* the last position of the identifier that starts at position p of t
RECURSIVE IdEnd(_, _)
IdEnd(t, p) ==
    IF p < Len(t) /\ t[p + 1] \in IdChars THEN IdEnd(t, p + 1) ELSE p

\* "{identifier}" starts at position p of t
BracedAt(t, p) ==
    /\ p + 2 <= Len(t)
    /\ t[p] = "{"
    /\ t[p + 1] \in IdStartChars
    /\ IdEnd(t, p + 1) < Len(t)
    /\ t[IdEnd(t, p + 1) + 1] = "}"

\* prepend the text s to the outcome r of the rest of the scan
Emit(s, r) == IF r.ok THEN Ok(s \o r.out) ELSE r

\* convert() of Template.substitute for a placeholder called name
Convert(name, d, rest) ==
    IF name \in DOMAIN d THEN Emit(StrInt(d[name]), rest) ELSE Raise("KeyError")

\* Template.substitute from position p on: the pattern's alternatives in
\* order (escaped, named, braced, invalid), matches taken left to right.
\* With safe set, an invalid delimiter is left in place (safe_substitute's
\* treatment of it) instead of raising ValueError.
RECURSIVE Scan(_, _, _, _)
Scan(t, p, d, safe) ==
    IF p > Len(t) THEN Ok(<<>>)
    ELSE IF t[p] # "@" THEN Emit(<<t[p]>>, Scan(t, p + 1, d, safe))
    ELSE IF p < Len(t) /\ t[p + 1] = "@"
        THEN Emit(<<"@">>, Scan(t, p + 2, d, safe))
    ELSE IF p < Len(t) /\ t[p + 1] \in IdStartChars
        THEN LET e == IdEnd(t, p + 1)
             IN  Convert(SubSeq(t, p + 1, e), d, Scan(t, e + 1, d, safe))
    ELSE IF BracedAt(t, p + 1)
        THEN LET e == IdEnd(t, p + 2)
             IN  Convert(SubSeq(t, p + 2, e), d, Scan(t, e + 2, d, safe))
    ELSE IF safe THEN Emit(<<"@">>, Scan(t, p + 1, d, safe))
    ELSE Raise("ValueError")

\* the renderer with safe_substitute in place of substitute
SubstitutePassThrough(t, d) == Scan(t, 1, d, TRUE)

\* _Template(t).substitute(**d)
Substitute(t, d) == Scan(t, 1, d, FALSE)

\* ProblemText.render: one {instruction, solution} pair per datum, in order;
\* the first exception raised ends the call
RECURSIVE RenderFrom(_, _, _)
RenderFrom(text, ds, k) ==
    IF k > Len(ds) THEN Ok(<<>>)
    ELSE LET ins == Substitute(text.instruction, ds[k])
             sol == Substitute(text.solution, ds[k])
         IN  IF ~ins.ok THEN ins
             ELSE IF ~sol.ok THEN sol
             ELSE Emit(<<[instruction |-> ins.out, solution |-> sol.out]>>,
                       RenderFrom(text, ds, k + 1))

Render(text, ds) == RenderFrom(text, ds, 1)

-----------------------------------------------------------------------------
(* Problem kinds, content types and texts *)

\* the parent class and the child classes (Problem.__subclasses__()):
\* Plain never validates, Picky validates what it drew, Hopeless validates
\* a condition that never holds
ChildClasses == {"Plain", "Picky", "Hopeless"}

Classes == {"Problem"} \cup ChildClasses

\* ContentType.objects.get_for_model(cls).id
ContentTypeOf(cls) ==
    CASE cls = "Problem" -> 10
      [] cls = "Plain" -> 11
      [] cls = "Picky" -> 12
      [] cls = "Hopeless" -> 13

ContentTypes == {ContentTypeOf(c) : c \in Classes}

\* content_type.model_class()
ModelClass(ct) == CHOOSE c \in Classes : ContentTypeOf(c) = ct

\* the stored ProblemText rows, by id (0 stands for text = None)
TextIds == {1, 2}

TextRow(t) ==
    IF t = 1
    THEN [content_type |-> ContentTypeOf("Picky"),
          instruction |-> <<"x", "=", "@", "x">>,
          solution |-> <<"@", "{", "x", "}", "!">>]
    ELSE [content_type |-> ContentTypeOf("Plain"),
          instruction |-> <<"@", "@", "@", "x">>,
          solution |-> <<"@", "y">>]

\* cls.default_text(): the class attributes default_instruction and
\* default_solution of a child class, under the class's content type
DefaultText(cls) ==
    [content_type |-> ContentTypeOf(cls),
     instruction |-> IF cls = "Plain" THEN <<"a", " ", "@", "x">>
                     ELSE <<"b", " ", "@", "x">>,
     solution |-> <<"@", "x", ".">>]

\* the stored problems the generation requests are about, by id
ProblemIds == {1, 2, 3, 4, 5, 12}

ProblemRow(id) ==
    CASE id = 1 -> [id |-> 1, cls |-> "Plain", text |-> 0, n |-> MaxSub]
      [] id = 2 -> [id |-> 2, cls |-> "Picky", text |-> 1, n |-> MaxSub]
      [] id = 3 -> [id |-> 3, cls |-> "Picky", text |-> 0, n |-> 1]
      [] id = 4 -> [id |-> 4, cls |-> "Hopeless", text |-> 0, n |-> 1]
      [] id = 5 -> [id |-> 5, cls |-> "Problem", text |-> 0, n |-> 1]
      [] id = 12 -> [id |-> 12, cls |-> "Plain", text |-> 2, n |-> 0]

StudentIds == 1..MaxStudent

-----------------------------------------------------------------------------
(* The module-global random source *)

\* states the source can be in before any random.seed call (OS entropy)
OsSeeds == {<<"?", "a">>, <<"?", "b">>}

CharCode(c) ==
    CASE c \in DigitChars -> (CHOOSE k \in 1..10 : Digits[k] = c)
      [] c = "-" -> 11
      [] c = "a" -> 12
      [] c = "b" -> 13
      [] OTHER -> 14

\* the seed's contribution to the stream (stands for the hash that
\* random.seed takes of a str seed)
RECURSIVE SeedHash(_)
SeedHash(s) ==
    IF s = <<>> THEN 0
    ELSE (5 * SeedHash(SubSeq(s, 1, Len(s) - 1)) + CharCode(s[Len(s)])) % RandMod

\* the source right after it was seeded from s
Seeded(s) == [seed |-> s, pos |-> 0]

\* a seed call that leaves the module-global source as it was (it seeds
\* some other Random instance)
RandomSeedElsewhere(a) == {rng}

\* random.seed(a): the states the source can be in afterwards; a str
\* determines the state, None takes the seed from OS entropy
RandomSeed(a) ==
    IF a.isNone THEN {Seeded(o) : o \in OsSeeds} ELSE {Seeded(a.s)}

\* the value the next draw returns, a function of the seed and of the
\* number of draws since
RandomValue(r) == (SeedHash(r.seed) + r.pos) % RandMod

\* the source after one draw
Advance(r) == [r EXCEPT !.pos = IF r.pos < MaxPos THEN r.pos + 1 ELSE r.pos]

-----------------------------------------------------------------------------
(* Generation *)

Procs == {1, 2}

ActiveProcs == IF parallel THEN Procs ELSE {1}

NoReq == [mode |-> "none", id |-> 0, cls |-> "Problem", text |-> 0, n |-> 0,
          student |-> 0]

NoResult == [ok |-> FALSE, err |-> "none", out |-> <<>>]

NoMemo == [set |-> FALSE, key |-> NoReq, out |-> NoResult]

\* the seed argument of _generate_data: f"{self.id}-{student.id}" in
\* student_text, None in example_data
SeedBase(r) ==
    IF r.mode = "student"
    THEN StrSeed(StrInt(r.id) \o <<"-">> \o StrInt(r.student))
    ELSE NoneSeed

\* f"{i}-{seed}" taken for the None it may hold: None stays None
SubSeedKeepingNone(i, seed) ==
    IF seed.isNone THEN NoneSeed ELSE StrSeed(StrInt(i) \o <<"-">> \o seed.s)

\* f"{i}-{seed}", the argument of random.seed: always a str
SubSeed(i, seed) == StrSeed(StrInt(i) \o <<"-">> \o Format(seed))

\* self.validate(condition) inside a child's generate
Validate(condition) == IF condition THEN "ok" ELSE "GeneratedDataIncorrect"

\* one call of self.generate() on the source in state r: what it raises
\* ("ok": nothing), the datum it returns and the source afterwards
Generate(cls, r) ==
    IF cls = "Problem"
    THEN [raised |-> "NotImplementedError", datum |-> <<>>, rng |-> r]
    ELSE LET v == RandomValue(r)
             verdict == CASE cls = "Plain" -> "ok"
                          [] cls = "Picky" -> Validate(v % 3 = 0)
                          [] cls = "Hopeless" -> Validate(FALSE)
         IN  [raised |-> verdict,
              datum |-> [k \in {<<"x">>} |-> v],
              rng |-> Advance(r)]

\* _render_text without the override
RenderTextDefaultOnly(r, ds) == Render(DefaultText(r.cls), ds)

\* _render_text
RenderText(r, ds) ==
    IF r.text = 0 THEN Render(DefaultText(r.cls), ds)
    ELSE Render(TextRow(r.text), ds)

Startable(p) ==
    /\ p \in ActiveProcs
    /\ pc[p] = "idle"
    /\ parallel \/ \A q \in Procs : pc[q] = "idle"

Begin(p, r) ==
    /\ req' = [req EXCEPT ![p] = r]
    /\ pc' = [pc EXCEPT ![p] = "for"]
    /\ idx' = [idx EXCEPT ![p] = 0]
    /\ data' = [data EXCEPT ![p] = <<>>]
    /\ result' = [result EXCEPT ![p] = NoResult]
    /\ seedLog' = [seedLog EXCEPT ![p] = <<>>]
    /\ attempts' = [attempts EXCEPT ![p] = 0]
    /\ UNCHANGED <<rng, memo, parallel, dbVars, renderVars>>

\* student_text(student) up to the call of _generate_data
StudentText(p, id, s) ==
    /\ Startable(p)
    /\ Begin(p, [mode |-> "student", id |-> id, cls |-> ProblemRow(id).cls,
                 text |-> ProblemRow(id).text, n |-> ProblemRow(id).n,
                 student |-> s])

\* example_text() up to the call of _generate_data
ExampleText(p, id) ==
    /\ Startable(p)
    /\ Begin(p, [mode |-> "example", id |-> id, cls |-> ProblemRow(id).cls,
                 text |-> ProblemRow(id).text, n |-> ProblemRow(id).n,
                 student |-> 0])

\* the head of the for loop with a further index: random.seed(f"{i}-{seed}")
SeedSubproblem(p) ==
    /\ pc[p] = "for"
    /\ idx[p] < req[p].n
    /\ rng' \in RandomSeed(SubSeed(idx[p], SeedBase(req[p])))
    /\ seedLog' = [seedLog EXCEPT ![p] = Append(@, rng'.seed)]
    /\ attempts' = [attempts EXCEPT ![p] = 0]
    /\ pc' = [pc EXCEPT ![p] = "try"]
    /\ UNCHANGED <<req, idx, data, result, memo, parallel, dbVars, renderVars>>

\* the try statement without its except clause
HandlePropagating(e) == IF e = "ok" THEN "break" ELSE "propagate"

\* the try statement around generate(): break after the append, pass (and
\* go round the while loop again) on GeneratedDataIncorrect, and let any
\* other exception leave the call
Handle(e) ==
    IF e = "ok" THEN "break"
    ELSE IF e = "GeneratedDataIncorrect" THEN "retry"
    ELSE "propagate"

\* the append done whatever generate() raised
AppendedAlways(ds, g) == Append(ds, g.datum)

\* data.append(self.generate()): nothing is appended when generate() raises
Appended(ds, g) == IF g.raised = "ok" THEN Append(ds, g.datum) ELSE ds

\* a retry that seeds the source again
SourceReseededOnRetry(p, g) == Seeded(SubSeed(idx[p], SeedBase(req[p])).s)

\* the source when the while loop goes round again: as the rejected
\* attempt left it
SourceOnRetry(p, g) == g.rng

\* one round of the while loop
Attempt(p) ==
    /\ pc[p] = "try"
    /\ LET g == Generate(req[p].cls, rng)
           h == Handle(g.raised)
       IN  /\ rng' = IF h = "retry" THEN SourceOnRetry(p, g) ELSE g.rng
           /\ data' = [data EXCEPT ![p] = Appended(@, g)]
           /\ idx' = [idx EXCEPT ![p] = IF h = "break" THEN @ + 1 ELSE @]
           /\ pc' = [pc EXCEPT ![p] = CASE h = "break" -> "for"
                                        [] h = "retry" -> "try"
                                        [] h = "propagate" -> "raised"]
           /\ result' = [result EXCEPT ![p] =
                            IF h = "propagate" THEN Raise(g.raised) ELSE @]
    /\ attempts' = [attempts EXCEPT ![p] = IF @ < MaxPos THEN @ + 1 ELSE @]
    /\ UNCHANGED <<req, seedLog, memo, parallel, dbVars, renderVars>>

\* the for loop is over: return data, then _render_text(data)
ReturnText(p) ==
    /\ pc[p] = "for"
    /\ idx[p] >= req[p].n
    /\ LET out == RenderText(req[p], data[p])
       IN  /\ result' = [result EXCEPT ![p] = out]
           /\ pc' = [pc EXCEPT ![p] = IF out.ok THEN "done" ELSE "raised"]
    /\ UNCHANGED <<rng, req, idx, data, seedLog, attempts, memo, parallel,
                   dbVars, renderVars>>

\* the locals of a call that is over
Release(p) ==
    /\ pc' = [pc EXCEPT ![p] = "idle"]
    /\ req' = [req EXCEPT ![p] = NoReq]
    /\ idx' = [idx EXCEPT ![p] = 0]
    /\ data' = [data EXCEPT ![p] = <<>>]
    /\ result' = [result EXCEPT ![p] = NoResult]
    /\ seedLog' = [seedLog EXCEPT ![p] = <<>>]
    /\ attempts' = [attempts EXCEPT ![p] = 0]

\* the caller takes the outcome; the request slot is free again
Forget(p) ==
    /\ pc[p] \in {"done", "raised"}
    /\ Release(p)
    /\ UNCHANGED <<rng, memo, parallel, dbVars, renderVars>>

\* the same, and the call is the one remembered for later comparison
Remember(p) ==
    /\ pc[p] \in {"done", "raised"}
    /\ memo' = [set |-> TRUE, key |-> req[p], out |-> result[p]]
    /\ Release(p)
    /\ UNCHANGED <<rng, parallel, dbVars, renderVars>>

\* no call under way
InitGenSlots ==
    /\ pc = [p \in Procs |-> "idle"]
    /\ req = [p \in Procs |-> NoReq]
    /\ idx = [p \in Procs |-> 0]
    /\ data = [p \in Procs |-> <<>>]
    /\ result = [p \in Procs |-> NoResult]
    /\ seedLog = [p \in Procs |-> <<>>]
    /\ attempts = [p \in Procs |-> 0]
    /\ memo = NoMemo

IdleRender ==
    /\ tpl = [instruction |-> <<>>, solution |-> <<>>]
    /\ datum = <<>>
    /\ rendered = NoResult

-----------------------------------------------------------------------------
(* Persistence: instances, the parent table, clean / save / downcast / copy *)

Documents == {1, 2}

\* the classes instances are made of in the persistence model
StoredClasses == {"Problem", "Plain", "Picky"}

NoObj == [live |-> FALSE, cls |-> "Problem", id |-> 0, document |-> 0,
          content_type |-> 0, text |-> 0, n |-> 0, adding |-> FALSE]

NoRow == [present |-> FALSE, document |-> 0, content_type |-> 0, text |-> 0,
          n |-> 0, child |-> "Problem"]

NoOp == [op |-> "none", err |-> "", pre |-> NoObj, ret |-> NoObj, doc |-> 0,
         preRows |-> <<>>]

\* Cls(document=..., content_type=..., text=..., number_of_subproblems=...)
Construct(cls, ct, text, n) ==
    /\ inst' = [live |-> TRUE, cls |-> cls, id |-> 0, document |-> 1,
                content_type |-> ct, text |-> text, n |-> n, adding |-> TRUE]
    /\ lastOp' = [NoOp EXCEPT !.op = "construct"]
    /\ UNCHANGED <<rows, nextId, genVars, renderVars>>

\* the instance a query returns for row id, as an instance of class cls
Fetched(id, cls) ==
    [live |-> TRUE, cls |-> cls, id |-> id, document |-> rows[id].document,
     content_type |-> rows[id].content_type, text |-> rows[id].text,
     n |-> rows[id].n, adding |-> FALSE]

\* Problem.objects.get(id=id) gives a parent-table instance,
\* Child.objects.get(id=id) an instance of the child class
Load(id, asParent) ==
    /\ rows[id].present
    /\ asParent \/ rows[id].child # "Problem"
    /\ inst' = Fetched(id, IF asParent THEN "Problem" ELSE rows[id].child)
    /\ lastOp' = [NoOp EXCEPT !.op = "load"]
    /\ UNCHANGED <<rows, nextId, genVars, renderVars>>

\* clean(): what it raises ("": nothing) and the instance afterwards
Cleaned(o) ==
    IF o.cls = "Problem" THEN [err |-> "ValidationError", obj |-> o]
    ELSE LET o2 == [o EXCEPT !.content_type = ContentTypeOf(o.cls)]
         IN  IF o2.text # 0 /\ o2.content_type # TextRow(o2.text).content_type
             THEN [err |-> "ValidationError", obj |-> o2]
             ELSE [err |-> "", obj |-> o2]

Clean ==
    /\ inst.live
    /\ inst' = Cleaned(inst).obj
    /\ lastOp' = [NoOp EXCEPT !.op = "clean", !.err = Cleaned(inst).err,
                              !.pre = inst]
    /\ UNCHANGED <<rows, nextId, genVars, renderVars>>

\* save(): the content type is set from the class, then Model.save writes
\* the instance: an insert under a fresh id when the instance is being
\* added, an update of its row otherwise
SavedObj(o) ==
    [o EXCEPT !.content_type = ContentTypeOf(o.cls),
              !.id = IF o.adding \/ o.id = 0 THEN nextId ELSE o.id,
              !.adding = FALSE]

SavedRows(o) ==
    LET s == SavedObj(o)
    IN  [rows EXCEPT ![s.id] =
            [present |-> TRUE, document |-> s.document,
             content_type |-> s.content_type, text |-> s.text, n |-> s.n,
             child |-> IF rows[s.id].present THEN rows[s.id].child ELSE s.cls]]

SavedNextId(o) == IF o.adding \/ o.id = 0 THEN nextId + 1 ELSE nextId

CanSave(o) == (o.adding \/ o.id = 0) => nextId <= MaxRows

Save ==
    /\ inst.live
    /\ CanSave(inst)
    /\ inst' = SavedObj(inst)
    /\ rows' = SavedRows(inst)
    /\ nextId' = SavedNextId(inst)
    /\ lastOp' = [NoOp EXCEPT !.op = "save", !.pre = inst, !.ret = inst',
                              !.preRows = rows]
    /\ UNCHANGED <<genVars, renderVars>>

\* downcast() returns self: the content type's class is the instance's
DowncastIsSelf(o) == ModelClass(o.content_type) = o.cls

\* downcast() finds the instance in the child table of the content type
DowncastFound(o) ==
    /\ ModelClass(o.content_type) # "Problem"
    /\ rows[o.id].present
    /\ rows[o.id].child = ModelClass(o.content_type)

\* self = self.downcast() in copy: the instance the rest of copy acts on
Downcast(o) ==
    IF DowncastIsSelf(o) THEN o ELSE Fetched(o.id, ModelClass(o.content_type))

\* the assignments of copy before the save
Detached(o, doc) == [o EXCEPT !.document = doc, !.id = 0, !.adding = TRUE]

\* copy(document) on the caller's instance; the caller keeps the instance
\* and gets the returned one
Copy(doc) ==
    /\ inst.live
    /\ inst.id # 0
    /\ inst.content_type # 0
    /\ nextId <= MaxRows
    /\ IF DowncastIsSelf(inst) \/ DowncastFound(inst)
       THEN LET m == Detached(Downcast(inst), doc)
            IN  /\ rows' = SavedRows(m)
                /\ nextId' = SavedNextId(m)
                \* self is the caller's instance when downcast returned it
                /\ inst' = IF DowncastIsSelf(inst) THEN SavedObj(m) ELSE inst
                /\ lastOp' = [op |-> "copy", err |-> "", pre |-> inst,
                              ret |-> SavedObj(m), doc |-> doc,
                              preRows |-> rows]
       ELSE \* the lookup in the child table raises: nothing is written
            /\ lastOp' = [NoOp EXCEPT !.op = "copy", !.err = "LookupError",
                                      !.pre = inst, !.doc = doc]
            /\ UNCHANGED <<inst, rows, nextId>>
    /\ UNCHANGED <<genVars, renderVars>>

IdleGen ==
    /\ InitGenSlots
    /\ rng = Seeded(<<"?", "a">>)
    /\ parallel = FALSE

IdleDb ==
    /\ inst = NoObj
    /\ rows = [i \in 1..MaxRows |-> NoRow]
    /\ nextId = 1
    /\ lastOp = NoOp

InitDb == IdleDb /\ IdleGen /\ IdleRender

NextDb ==
    \/ \E cls \in StoredClasses, ct \in {0, ContentTypeOf("Picky")},
          text \in {0, 1}, n \in {1, 2} : Construct(cls, ct, text, n)
    \/ \E id \in 1..MaxRows, asParent \in BOOLEAN : Load(id, asParent)
    \/ Clean
    \/ Save
    \/ \E doc \in Documents : Copy(doc)

SpecDb == InitDb /\ [][NextDb]_vars

\* C4 as stated: whatever is stored went through validation: no row was
\* saved from the parent class, a row's content type is that of its class,
\* and the content type of a row's text is the row's.
C4_ValidatedBeforePersistence ==
    \A id \in 1..MaxRows :
        rows[id].present =>
            /\ rows[id].child # "Problem"
            /\ rows[id].content_type = ContentTypeOf(rows[id].child)
            /\ rows[id].text # 0 =>
                   TextRow(rows[id].text).content_type = rows[id].content_type

\* C5 as stated: a copy of a problem of a concrete kind has a new identity,
\* the target document and the source's kind, text and number of
\* subproblems, and leaves the stored source row and the instance the
\* caller holds as they were.
C5_CopyLeavesSourceUnchanged ==
    (/\ lastOp.op = "copy"
     /\ lastOp.err = ""
     /\ lastOp.preRows[lastOp.pre.id].child # "Problem") =>
        /\ lastOp.ret.id # lastOp.pre.id
        /\ ~lastOp.preRows[lastOp.ret.id].present
        /\ rows[lastOp.ret.id].present
        /\ lastOp.ret.document = lastOp.doc
        /\ rows[lastOp.ret.id].document = lastOp.doc
        /\ lastOp.ret.content_type = lastOp.pre.content_type
        /\ lastOp.ret.text = lastOp.pre.text
        /\ lastOp.ret.n = lastOp.pre.n
        /\ rows[lastOp.pre.id] = lastOp.preRows[lastOp.pre.id]
        /\ inst = lastOp.pre

-----------------------------------------------------------------------------
(* Rendering one text with one datum *)

TplChars == {"@", "x", "5", " ", "{", "}", "_"}

Templates == UNION {[1..n -> TplChars] : n \in 0..MaxTplLen}

Data ==
    {[k \in {<<"x">>} |-> 1],
     [k \in {<<"x">>, <<"x", "5">>} |-> IF k = <<"x">> THEN 12 ELSE 7]}

InitRender ==
    /\ tpl \in {[instruction |-> t, solution |-> <<"@", "{", "x", "}">>] :
                   t \in Templates}
    /\ datum \in Data
    /\ rendered = NoResult
    /\ IdleGen
    /\ IdleDb

\* text.render([datum])
RenderOne ==
    /\ rendered = NoResult
    /\ rendered' = Render(tpl, <<datum>>)
    /\ UNCHANGED <<tpl, datum, genVars, dbVars>>

NextRender == RenderOne

SpecRender == InitRender /\ [][NextRender]_vars

\* the number of "@" that end right before position i of t
RECURSIVE AtsBefore(_, _)
AtsBefore(t, i) ==
    IF i > 1 /\ t[i - 1] = "@" THEN 1 + AtsBefore(t, i - 1) ELSE 0

\* position i of t holds a delimiter (not the second "@" of an escape)
DelimAt(t, i) == t[i] = "@" /\ AtsBefore(t, i) % 2 = 0

\* the delimiter at i starts the escape "@@"
EscapeAt(t, i) == DelimAt(t, i) /\ i < Len(t) /\ t[i + 1] = "@"

\* the delimiter at i is followed by no identifier, brace or "@": a digit,
\* a space, punctuation or the end of the template
LiteralAt(t, i) ==
    /\ DelimAt(t, i)
    /\ i = Len(t) \/ t[i + 1] \notin (IdStartChars \cup {"@", "{"})

\* t with the first "@" of every escape dropped
RECURSIVE Collapsed(_, _)
Collapsed(t, i) ==
    IF i > Len(t) THEN <<>>
    ELSE IF EscapeAt(t, i) THEN Collapsed(t, i + 1)
    ELSE <<t[i]>> \o Collapsed(t, i + 1)

\* C8 as stated: a template whose delimiters are all escapes or literal "@"
\* renders, the literal "@" and what follows verbatim, "@@" as one "@".
C8_LiteralAtPassesThrough ==
    LET t == tpl.instruction
    IN  (/\ rendered # NoResult
         /\ \A i \in 1..Len(t) : DelimAt(t, i) => (EscapeAt(t, i) \/ LiteralAt(t, i)))
            => /\ rendered.ok
               /\ rendered.out[1].instruction = Collapsed(t, 1)

\* C8 amended: a template with an "@" followed by no identifier does not
\* render: the call raises ValueError, or KeyError for a placeholder before
\* it; a template whose delimiters are all escapes renders with one "@"
\* per "@@".
C8_InvalidDelimiterRaises ==
    LET t == tpl.instruction
    IN  rendered # NoResult =>
            /\ (\E i \in 1..Len(t) : LiteralAt(t, i)) =>
                   /\ ~rendered.ok
                   /\ rendered.err \in {"ValueError", "KeyError"}
                   /\ (\A i \in 1..Len(t) :
                          DelimAt(t, i) => (EscapeAt(t, i) \/ LiteralAt(t, i)))
                          => rendered.err = "ValueError"
            /\ (\A i \in 1..Len(t) : DelimAt(t, i) => EscapeAt(t, i)) =>
                   /\ rendered.ok
                   /\ rendered.out[1].instruction = Collapsed(t, 1)

\* "@@@" was rendered: an escape, then an "@" at the end of the template
C8_Witness ==
    /\ tpl.instruction = <<"@", "@", "@">>
    /\ rendered.err = "ValueError"

-----------------------------------------------------------------------------
(* Specifications of the generation calls *)

InitGen ==
    /\ rng \in {Seeded(o) : o \in OsSeeds}
    /\ InitGenSlots

\* the steps of the calls under way
Running ==
    \/ \E p \in Procs : SeedSubproblem(p)
    \/ \E p \in Procs : Attempt(p)
    \/ \E p \in Procs : ReturnText(p)

NextGen ==
    \/ \E p \in Procs, id \in ProblemIds, s \in StudentIds : StudentText(p, id, s)
    \/ \E p \in Procs, id \in ProblemIds : ExampleText(p, id)
    \/ Running
    \/ \E p \in Procs : Forget(p)
    \/ \E p \in Procs : Remember(p)

\* one request at a time
Init == InitGen /\ parallel = FALSE /\ IdleDb /\ IdleRender

Spec == Init /\ [][NextGen]_vars

\* a call that was started keeps running (one thread, no preemption)
SpecLive == Spec /\ WF_vars(Running)

\* two requests interleaved by the host (two threads of one process share
\* the module-global source)
InitPar == InitGen /\ parallel = TRUE /\ IdleDb /\ IdleRender

NextPar ==
    \/ \E p \in Procs, id \in ProblemIds, s \in StudentIds : StudentText(p, id, s)
    \/ Running
    \/ \E p \in Procs : Forget(p)

SpecPar == InitPar /\ [][NextPar]_vars

-----------------------------------------------------------------------------
(* Properties of generation *)

\* whether a child class' generator keeps a drawn value
Keeps(cls, v) ==
    CASE cls = "Plain" -> TRUE
      [] cls = "Picky" -> v % 3 = 0
      [] OTHER -> FALSE

\* the classes whose generator accepts after finitely many draws
Accepting == {"Plain", "Picky"}

\* the number of draws the generator of cls rejects on a source seeded
\* with s before it keeps one
Rejections(cls, s) ==
    CHOOSE k \in 0..MaxPos :
        /\ Keeps(cls, RandomValue([seed |-> s, pos |-> k]))
        /\ \A j \in 0..(k - 1) : ~Keeps(cls, RandomValue([seed |-> s, pos |-> j]))

\* the first datum accepted for subproblem i of request r
FirstAccepted(r, i) ==
    LET s == StrInt(i) \o <<"-">> \o Format(SeedBase(r))
    IN  [k \in {<<"x">>} |->
            RandomValue([seed |-> s, pos |-> Rejections(r.cls, s)])]

\* C1: with number_of_subproblems >= 1 and a generator that rejects finitely
\* many draws per subproblem, the call does not fail, data grows by one
\* entry per finished subproblem only, and on return data holds exactly
\* number_of_subproblems entries, the i-th being the first accepted datum
\* of subproblem i, and the rendered list has the same length.
C1_ExactlyOneDatumPerSubproblem ==
    \A p \in Procs :
        (req[p].n >= 1 /\ req[p].cls \in Accepting /\ pc[p] # "idle") =>
            /\ pc[p] # "raised"
            /\ Len(data[p]) = idx[p]
            /\ \A i \in 1..Len(data[p]) : data[p][i] = FirstAccepted(req[p], i - 1)
            /\ pc[p] = "done" =>
                /\ Len(data[p]) = req[p].n
                /\ result[p].ok
                /\ Len(result[p].out) = req[p].n

\* a call over several subproblems returned, the last of which rejected a draw
C1_Witness ==
    /\ pc[1] = "done"
    /\ req[1].mode = "student"
    /\ req[1].cls = "Picky"
    /\ req[1].n >= 2
    /\ attempts[1] >= 2

\* C2: a student_text call for the same problem and student as the
\* remembered one has the remembered outcome, whatever ran in between and
\* whatever state the source was in.
C2_StudentTextDeterministic ==
    \A p \in Procs :
        (/\ pc[p] \in {"done", "raised"}
         /\ req[p].mode = "student"
         /\ memo.set
         /\ memo.key = req[p]) => result[p] = memo.out

\* a retrying student_text call was repeated
C2_Witness ==
    /\ pc[1] = "done"
    /\ req[1].mode = "student"
    /\ req[1].cls = "Picky"
    /\ attempts[1] >= 2
    /\ memo.set
    /\ memo.key = req[1]

\* C3 as stated: in example mode the source is unseeded, so the draws of an
\* example call come from a state taken from OS entropy.
C3_ExampleUnseeded ==
    \A p \in Procs :
        (pc[p] = "try" /\ req[p].mode = "example" /\ attempts[p] = 0) =>
            rng.seed \in OsSeeds

\* C3 amended: example mode seeds the source with the string "<i>-None", so
\* an example_text call for the same problem as the remembered one has the
\* remembered outcome.
C3_ExampleReproducible ==
    \A p \in Procs :
        (/\ pc[p] \in {"done", "raised"}
         /\ req[p].mode = "example"
         /\ memo.set
         /\ memo.key = req[p]) => result[p] = memo.out

\* an example_text call that generated data was repeated
C3_Witness ==
    /\ pc[1] = "done"
    /\ req[1].mode = "example"
    /\ Len(data[1]) >= 1
    /\ seedLog[1][1] = <<"0", "-", "N", "o", "n", "e">>
    /\ memo.set
    /\ memo.key = req[1]

\* C6 as stated: a request for one problem and student, interleaved with a
\* request for another, returns the data it returns when run alone.
C6_IndependentOfInterleaving ==
    \A p \in Procs :
        (/\ pc[p] = "done"
         /\ req[p].cls \in Accepting
         /\ \A q \in Procs \ {p} :
                req[q].id # req[p].id \/ req[q].student # req[p].student) =>
            \A i \in 1..Len(data[p]) : data[p][i] = FirstAccepted(req[p], i - 1)

\* C7: the rendered list is built with the text override when text is set
\* and with the class default when text is None, the i-th pair from the
\* i-th datum.
C7_TemplateResolution ==
    \A p \in Procs :
        pc[p] = "done" =>
            LET t == IF req[p].text # 0 THEN TextRow(req[p].text)
                     ELSE DefaultText(req[p].cls)
            IN  /\ Len(result[p].out) = Len(data[p])
                /\ \A i \in 1..Len(data[p]) :
                    /\ result[p].out[i].instruction
                          = Substitute(t.instruction, data[p][i]).out
                    /\ result[p].out[i].solution
                          = Substitute(t.solution, data[p][i]).out

\* a problem with an override rendered two different data
C7_Witness ==
    /\ pc[1] = "done"
    /\ req[1].text # 0
    /\ Len(data[1]) >= 2
    /\ data[1][1] # data[1][2]

C10_RetryTermination ==
    /\ \A p \in Procs :
           (pc[p] \in {"for", "try"} /\ req[p].cls \in Accepting)
               ~> (pc[p] = "done")
    /\ [](\A p \in Procs :
           (pc[p] # "idle" /\ req[p].cls = "Hopeless" /\ req[p].n >= 1) =>
               /\ pc[p] \in {"for", "try"}
               /\ idx[p] = 0
               /\ data[p] = <<>>)

\* the always-rejecting generator was tried as often as the model counts
C10_Witness ==
    /\ pc[1] = "try"
    /\ req[1].cls = "Hopeless"
    /\ attempts[1] = MaxPos

====
